---- MODULE Spec2Model ----
(***************************************************************************)
(* The client side IPC engine of TriPlayer (class Sysmodule): a worker     *)
(* thread running Sysmodule::process drains a queue of (request, handler)  *)
(* pairs over one socket, while application threads enqueue requests, read *)
(* the cached state, terminate the service and reconnect.                  *)
(***************************************************************************)
EXTENDS Integers, Sequences, FiniteSets, TLC

\* ------------------------------------------------------------- bounds
\* Calls made by the application threads plus polls made by the worker.
MaxEvents == 2
\* Sizes and indices the service reports lie in 0..MaxSize.
MaxSize == 1
\* Blocking calls the waiting thread makes.
MaxWaits == 2
\* Length of the lists the service replies to GetQueue.
MaxLen == 3
\* Number of commands enqueued where polls are not counted as events.
MaxCommands == 30

\* ---------------------------------------------------------- constants
\* Protocol::Version, the protocol version the application is compiled with.
ProtocolVersion == 3
\* Bounds of the queue / sub-queue fetches.
QueueFetchEnd == 25000
SubQueueFetchEnd == 5000
\* Protocol::Delimiter, as a character code: a character that is no digit.
Delimiter == 10
\* The decimal point, another character that is no digit.
Dot == Delimiter + 1
\* volume_ after construction. A double is modelled by its number of tenths.
InitialVolume == 100

Producers == {"p1", "p2"}

VARIABLES
    \* Sysmodule's fields
    error_, writeQueue, writeMutex, socket, exit_,
    queueSize_, subQueueSize_, songIdx_, queueChanged_, subQueueChanged_,
    queue_, subQueue_, volume_, position_, queueMutex,
    \* the worker thread: position in process() and its locals
    wpc, wstr, queuedFunc, wtodo, wret,
    \* the transport: the request written and not yet answered
    wire,
    \* producer threads inside a facade call
    ppc, preq, pret,
    \* the application thread inside reconnect(): position and local reply
    apc, reply,
    \* the thread inside a blocking call: position, the call made, its local
    \* done, its return value
    wtpc, wkind, done, wtret,
    \* the thread reading the change flags: position and return value
    rpc, rret,
    \* the application's database: how it is open
    db,
    \* bookkeeping of what has happened (never read by the program)
    nextId, nextSocket, events, pn, lastSent, lastHandled, clean, failedUpTo,
    wcall, ownRan, dangling, pendingQ, pendingS, wsession

sysVars == <<error_, writeQueue, writeMutex, socket, exit_>>
cacheVars == <<queueSize_, subQueueSize_, songIdx_, queueChanged_, subQueueChanged_,
               queue_, subQueue_, volume_, position_, queueMutex>>
workerVars == <<wpc, wstr, queuedFunc, wtodo, wret, wire>>
prodVars == <<ppc, preq, pret>>
appVars == <<apc, reply>>
waitVars == <<wtpc, wkind, done, wtret>>
readVars == <<rpc, rret>>
histVars == <<nextId, nextSocket, events, pn, lastSent, lastHandled, clean,
              failedUpTo, wcall, ownRan, dangling, pendingQ, pendingS, wsession>>
vars == <<sysVars, cacheVars, workerVars, prodVars, appVars, waitVars, readVars,
          db, histVars>>

\* ------------------------------------------------------------ strings
\* A reply is a string: a sequence of characters. Digits are the numbers
\* 0..9; the empty string is what readMessage returns on failure.
IsDigit(c) == c \in 0..9

RECURSIVE DigitsValue(_, _)
DigitsValue(s, acc) ==
    IF s = <<>> \/ ~IsDigit(Head(s)) THEN acc
    ELSE DigitsValue(Tail(s), 10 * acc + Head(s))

\* std::stoi / std::stoul: the number the leading digits spell.
Stoi(s) == DigitsValue(s, 0)

\* The decimal digits of a natural number.
RECURSIVE Digits(_)
Digits(n) == IF n < 10 THEN <<n>> ELSE Append(Digits(n \div 10), n % 10)

\* std::to_string(double) of a value of v tenths: the integer part, the
\* point and six decimals.
to_string(v) == Digits(v \div 10) \o <<Dot, v % 10, 0, 0, 0, 0, 0>>

\* The number of leading digits of a string.
RECURSIVE LeadingDigits(_)
LeadingDigits(s) ==
    IF s = <<>> \/ ~IsDigit(Head(s)) THEN 0 ELSE 1 + LeadingDigits(Tail(s))

\* A std::stod that drops the decimals.
StodWhole(s) == 10 * DigitsValue(s, 0)

\* std::stod of a string of digits with at most one point, in tenths: the
\* integer part, and the first decimal when a point and a digit follow.
Stod(s) ==
    LET n == LeadingDigits(s)
    IN  10 * DigitsValue(s, 0)
        + (IF Len(s) >= n + 2 /\ s[n + 1] = Dot /\ IsDigit(s[n + 2]) THEN s[n + 2] ELSE 0)

\* strtok(str, delims), repeated to the end of the string: the maximal runs
\* of characters that are not in delims, in order.
RECURSIVE Tokens(_, _, _)
Tokens(s, delims, tok) ==
    IF s = <<>> THEN (IF tok = <<>> THEN <<>> ELSE <<tok>>)
    ELSE IF Head(s) \in delims
         THEN (IF tok = <<>> THEN <<>> ELSE <<tok>>) \o Tokens(Tail(s), delims, <<>>)
         ELSE Tokens(Tail(s), delims, Append(tok, Head(s)))

\* strtol(tok, nullptr, 10) of a token without sign or blanks.
Strtol(tok) == DigitsValue(tok, 0)

\* The characters strtok takes as delimiters when it is given
\* &Protocol::Delimiter, the address of one character: that character and
\* the bytes that follow it in memory up to the first zero byte. The read
\* past the character is undefined; tail is what it finds.
DelimitersAt(tail) == {Delimiter} \cup {tail[i] : i \in DOMAIN tail}

\* What may follow Protocol::Delimiter in memory: a zero byte, or a byte
\* that is the code of a digit and then a zero byte.
DelimiterTails == {<<>>, <<2>>}

\* The handlers of GetQueue and GetSubQueue, lines 410-416: the list the
\* reply is parsed to.
ParseQueue(s, tail) ==
    LET toks == Tokens(s, DelimitersAt(tail), <<>>)
    IN  [i \in DOMAIN toks |-> Strtol(toks[i])]

\* What the service may answer to the version request.
VersionReplies == {<<>>, <<ProtocolVersion>>, <<0, ProtocolVersion>>, <<ProtocolVersion - 1>>}
SizeReplies == {<<n>> : n \in 0..MaxSize}

\* ----------------------------------------------------------- requests
\* A facade call builds a request string and a handler; the handler is named
\* by the facade method that creates it.
Request(op, args, f) == [msg |-> [op |-> op, args |-> args], f |-> f]

sendSetShuffle(m) == Request("SetShuffle", <<m>>, "sendSetShuffle")
sendSetPosition(pos) == Request("SetPosition", <<to_string(pos)>>, "sendSetPosition")
sendSetVolume(v) == Request("SetVolume", <<to_string(v)>>, "sendSetVolume")
sendGetQueue(s, e) == Request("GetQueue", <<s, e>>, "sendGetQueue")
sendGetSubQueue(s, e) == Request("GetSubQueue", <<s, e>>, "sendGetSubQueue")
sendGetPlayingFrom == Request("GetPlayingFrom", <<>>, "sendGetPlayingFrom")
sendGetPosition == Request("GetPosition", <<>>, "sendGetPosition")
sendGetQueueSize == Request("QueueSize", <<>>, "sendGetQueueSize")
sendGetRepeat == Request("GetRepeat", <<>>, "sendGetRepeat")
sendGetShuffle == Request("GetShuffle", <<>>, "sendGetShuffle")
sendGetSong == Request("GetSong", <<>>, "sendGetSong")
sendGetSongIdx == Request("QueueIdx", <<>>, "sendGetSongIdx")
sendGetSubQueueSize == Request("SubQueueSize", <<>>, "sendGetSubQueueSize")
sendGetStatus == Request("GetStatus", <<>>, "sendGetStatus")
sendGetVolume == Request("GetVolume", <<>>, "sendGetVolume")
sendNext == Request("Next", <<>>, "sendNext")
waitRequestDBLock == Request("RequestDBLock", <<>>, "waitRequestDBLock")
waitReset == Request("Reset", <<>>, "waitReset")
waitSongIdx == Request("QueueIdx", <<>>, "waitSongIdx")

\* A poll that asks for the volume first.
PollVolumeFirst ==
    << sendGetVolume, sendGetPlayingFrom, sendGetPosition, sendGetQueueSize,
       sendGetRepeat, sendGetShuffle, sendGetSong, sendGetSongIdx,
       sendGetSubQueueSize, sendGetStatus >>

\* The requests process() enqueues when the update delay has elapsed.
PollBattery ==
    << sendGetPlayingFrom, sendGetPosition, sendGetQueueSize, sendGetRepeat,
       sendGetShuffle, sendGetSong, sendGetSongIdx, sendGetSubQueueSize,
       sendGetStatus, sendGetVolume >>

\* The fire-and-forget calls the producer threads make.
FacadeCalls == {sendNext}

\* The positions a caller seeks to, in tenths: 1.5 and 30.0.
Positions == {15, 300}

\* The shuffle mode the producers ask for, and their calls.
ShuffleModes == {"On"}
ShuffleCalls == {sendSetShuffle(m) : m \in ShuffleModes}

\* The blocking calls.
WaitCalls == {waitRequestDBLock, waitReset, waitSongIdx}

\* The lists the service answers to GetQueue and GetSubQueue: one song, or
\* any string of at most three characters that are 1, 2 or the delimiter.
OneSong == {<<0>>}
ListChars == {1, 2, Delimiter}
ListReplies ==
    UNION {[1..n -> ListChars] : n \in 1..MaxLen}

\* The volumes a caller sets and the service replies, in tenths: 0.5 and
\* 42.5.
Volumes == {5, 425}
VolumeCalls == {sendSetVolume(v) : v \in Volumes}
VolumeReplies == {to_string(r) : r \in Volumes}

\* A reply that spells no number: a point alone.
NoNumber == <<Dot>>

\* A service is the replies it may give: a service with one song in the
\* queue and the volume of the construction, one that answers GetQueue with
\* lists, one that answers the volume commands with any volume, one that
\* may answer any request with a reply that spells no number.
PlainService ==
    [sizes |-> SizeReplies, lists |-> OneSong, sublists |-> OneSong,
     volumes |-> {to_string(10 * InitialVolume)}, garbled |-> {}]
ListService ==
    [sizes |-> SizeReplies, lists |-> ListReplies, sublists |-> OneSong,
     volumes |-> {to_string(10 * InitialVolume)}, garbled |-> {}]
VolumeService ==
    [sizes |-> SizeReplies, lists |-> OneSong, sublists |-> OneSong,
     volumes |-> VolumeReplies, garbled |-> {}]
GarbledService ==
    [sizes |-> SizeReplies, lists |-> OneSong, sublists |-> OneSong,
     volumes |-> {to_string(10 * InitialVolume)}, garbled |-> {NoNumber}]

\* A service whose queue and sub-queue do not change: each holds the songs
\* 1 and 3, the sizes and the song index are 2.
StableQueue == <<1, Delimiter, 3>>
StableService ==
    [sizes |-> {<<2>>}, lists |-> {StableQueue}, sublists |-> {StableQueue},
     volumes |-> {to_string(10 * InitialVolume)}, garbled |-> {}]

\* What the service may answer to a request.
RepliesTo(msg, service) ==
    service.garbled \cup
        (IF msg.op \in {"QueueSize", "SubQueueSize", "QueueIdx"} THEN service.sizes
         ELSE IF msg.op = "GetQueue" THEN service.lists
         ELSE IF msg.op = "GetSubQueue" THEN service.sublists
         ELSE IF msg.op \in {"GetVolume", "SetVolume"} THEN service.volumes
         ELSE {<<0>>})

\* ---------------------------------------------------- addToWriteQueue
\* An addToWriteQueue without the test of line 17.
AcceptsAlways(err) == TRUE

\* Line 17: the request is refused when the engine is in an error state.
Accepts(err) == err = "None"

\* A push at the front of the queue.
PushFront(q, cmd) == <<cmd>> \o q

\* Line 22: writeQueue.push
Push(q, cmd) == Append(q, cmd)

\* The pair pushed, numbered in the order of the pushes. call is the blocking
\* call whose local done the handler has captured by reference (0: none);
\* lostOn is bookkeeping: the session during which the command was queued
\* when the connection was lost (0: never).
Command(req, call) ==
    [id |-> nextId + 1, msg |-> req.msg, f |-> req.f, call |-> call, lostOn |-> 0]

\* ---------------------------------------------------------- reconnect
\* A reconnect() that accepts any version the service replies.
ReconnectAnyVersion(connected, version) ==
    IF ~connected THEN "NotConnected"
    ELSE IF Len(version) > 0 THEN "None" ELSE "Unknown"

\* The error field reconnect() leaves, from whether getTransferSocket gave a
\* connected socket and from the reply to the version request.
ReconnectError(connected, version) ==
    IF ~connected THEN "NotConnected"
    ELSE IF Len(version) > 0
         THEN IF Stoi(version) # ProtocolVersion THEN "DifferentVersion" ELSE "None"
         ELSE "Unknown"

\* The queue after the constructor's sendGetQueue(0, 25000) and
\* sendGetSubQueue(0, 5000), each an addToWriteQueue.
RECURSIVE EnqueueAll(_, _, _, _)
EnqueueAll(q, reqs, err, id) ==
    IF reqs = <<>> THEN q
    ELSE IF Accepts(err)
         THEN EnqueueAll(Push(q, [id |-> id + 1, msg |-> Head(reqs).msg,
                                  f |-> Head(reqs).f, call |-> 0, lostOn |-> 0]),
                         Tail(reqs), err, id + 1)
         ELSE EnqueueAll(q, Tail(reqs), err, id)

LaunchFetches == << sendGetQueue(0, QueueFetchEnd), sendGetSubQueue(0, SubQueueFetchEnd) >>

\* What connector->getTransferSocket() may give: no socket, a socket that is
\* not connected, a connected socket.
SocketResults == {"null", "down", "up"}

NewSocket(res, n) == IF res = "null" THEN [id |-> 0, up |-> FALSE]
                     ELSE [id |-> n, up |-> res = "up"]

IsConnected(s) == s.id # 0 /\ s.up

NoValue == [ok |-> FALSE, val |-> 0]
NoReply == [to |-> 0, text |-> <<>>]
NoFunc == [id |-> 0, f |-> "none", call |-> 0]

Init ==
    \E res \in SocketResults, version \in VersionReplies :
        /\ socket = NewSocket(res, 1)
        /\ error_ = ReconnectError(IsConnected(socket), version)
        /\ nextSocket = 1
        /\ apc = "idle" /\ reply = <<>>
        /\ writeQueue = EnqueueAll(<<>>, LaunchFetches, error_, 0)
        /\ nextId = Len(writeQueue)
        /\ writeMutex = "free"
        /\ exit_ = FALSE
        /\ queueSize_ = 0 /\ subQueueSize_ = 0 /\ songIdx_ = 0
        /\ queueChanged_ = FALSE /\ subQueueChanged_ = FALSE
        /\ queue_ = <<>> /\ subQueue_ = <<>>
        /\ volume_ = 10 * InitialVolume
        /\ position_ = 0
        /\ queueMutex = "free"
        /\ wpc = "top"
        /\ wstr = NoReply
        /\ queuedFunc = NoFunc
        /\ wtodo = <<>> /\ wret = "top" /\ wire = <<>>
        /\ ppc = [p \in Producers |-> "idle"]
        /\ preq = [p \in Producers |-> sendNext]
        /\ pret = [p \in Producers |-> TRUE]
        /\ events = 0
        /\ pn = [p \in Producers |-> 0]
        /\ lastSent = 0 /\ lastHandled = 0
        /\ clean = (error_ = "None")
        /\ failedUpTo = 0
        /\ wtpc = "idle" /\ wkind = waitReset /\ done = FALSE /\ wtret = NoValue
        /\ wcall = 0 /\ ownRan = FALSE /\ dangling = FALSE
        /\ rpc = "idle" /\ rret = FALSE
        /\ db = "readOnly"
        /\ pendingQ = FALSE /\ pendingS = FALSE
        /\ wsession = 0

\* Bookkeeping: the commands queued when the connection is lost during
\* session n are marked.
MarkLost(q, n) == [i \in DOMAIN q |-> [q[i] EXCEPT !.lostOn = IF @ = 0 THEN n ELSE @]]

MaxId(q) == IF q = <<>> THEN 0 ELSE q[Len(q)].id

Alive == wpc # "crashed"

\* ------------------------------------------------------------- worker
\* A worker loop that does not test the exit flag.
WorkerTopIgnoresExit ==
    /\ wpc = "top"
    /\ wpc' = IF error_ # "None" THEN "top" ELSE "lock"
    /\ UNCHANGED <<error_, writeQueue, writeMutex, socket, exit_, queueSize_,
                   subQueueSize_, songIdx_, queueChanged_, subQueueChanged_, queue_,
                   subQueue_, volume_, position_, queueMutex, wstr, queuedFunc, wtodo,
                   wret, wire, ppc, preq, pret, apc, reply, wtpc, wkind, done, wtret,
                   rpc, rret, db, nextId, nextSocket, events, pn, lastSent, lastHandled,
                   clean, failedUpTo, wcall, ownRan, dangling, pendingQ, pendingS,
                   wsession>>

\* A worker that clears the error by itself and goes on.
WorkerTopReconnects ==
    /\ wpc = "top"
    /\ wpc' = IF exit_ THEN "stopped" ELSE "lock"
    /\ error_' = "None"
    /\ UNCHANGED <<writeQueue, writeMutex, socket, exit_, queueSize_, subQueueSize_,
                   songIdx_, queueChanged_, subQueueChanged_, queue_, subQueue_,
                   volume_, position_, queueMutex, wstr, queuedFunc, wtodo, wret, wire,
                   ppc, preq, pret, apc, reply, wtpc, wkind, done, wtret, rpc, rret, db,
                   nextId, nextSocket, events, pn, lastSent, lastHandled, clean,
                   failedUpTo, wcall, ownRan, dangling, pendingQ, pendingS, wsession>>

\* Lines 115-120: the loop test and the error test (with the 50 ms sleep).
WorkerTop ==
    /\ wpc = "top"
    /\ wpc' = IF exit_ THEN "stopped" ELSE IF error_ # "None" THEN "top" ELSE "lock"
    /\ UNCHANGED <<error_, writeQueue, writeMutex, socket, exit_, queueSize_,
                   subQueueSize_, songIdx_, queueChanged_, subQueueChanged_, queue_,
                   subQueue_, volume_, position_, queueMutex, wstr, queuedFunc, wtodo,
                   wret, wire, ppc, preq, pret, apc, reply, wtpc, wkind, done, wtret,
                   rpc, rret, db, nextId, nextSocket, events, pn, lastSent, lastHandled,
                   clean, failedUpTo, wcall, ownRan, dangling, pendingQ, pendingS,
                   wsession>>

\* Line 125 with an empty queue, line 155, and lines 162-175 when the update
\* delay has elapsed, as it does again and again while the worker runs: the
\* lock is released and the ten state requests are enqueued.
WorkerPoll ==
    /\ wpc = "loop"
    /\ writeQueue = <<>>
    /\ nextId + Len(PollBattery) <= MaxCommands
    /\ writeMutex' = "free"
    /\ wtodo' = PollBattery
    /\ wret' = "top"
    /\ wpc' = "add"
    /\ UNCHANGED <<error_, writeQueue, socket, exit_, queueSize_, subQueueSize_,
                   songIdx_, queueChanged_, subQueueChanged_, queue_, subQueue_,
                   volume_, position_, queueMutex, wstr, queuedFunc, wire, ppc, preq,
                   pret, apc, reply, wtpc, wkind, done, wtret, rpc, rret, db, nextId,
                   nextSocket, events, pn, lastSent, lastHandled, clean, failedUpTo,
                   wcall, ownRan, dangling, pendingQ, pendingS, wsession>>

\* Line 125 with an empty queue, line 155, and lines 177-178: the lock is
\* released and the worker sleeps 5 ms.
WorkerSleep ==
    /\ wpc = "loop"
    /\ writeQueue = <<>>
    /\ writeMutex' = "free"
    /\ wpc' = "top"
    /\ UNCHANGED <<error_, writeQueue, socket, exit_, queueSize_, subQueueSize_,
                   songIdx_, queueChanged_, subQueueChanged_, queue_, subQueue_,
                   volume_, position_, queueMutex, wstr, queuedFunc, wtodo, wret, wire,
                   ppc, preq, pret, apc, reply, wtpc, wkind, done, wtret, rpc, rret, db,
                   nextId, nextSocket, events, pn, lastSent, lastHandled, clean,
                   failedUpTo, wcall, ownRan, dangling, pendingQ, pendingS, wsession>>

\* Line 124: std::unique_lock mtx(writeMutex)
WorkerLock ==
    /\ wpc = "lock"
    /\ writeMutex = "free"
    /\ writeMutex' = "worker"
    /\ wpc' = "loop"
    /\ UNCHANGED <<error_, writeQueue, socket, exit_, queueSize_, subQueueSize_,
                   songIdx_, queueChanged_, subQueueChanged_, queue_, subQueue_,
                   volume_, position_, queueMutex, wstr, queuedFunc, wtodo, wret, wire,
                   ppc, preq, pret, apc, reply, wtpc, wkind, done, wtret, rpc, rret, db,
                   nextId, nextSocket, events, pn, lastSent, lastHandled, clean,
                   failedUpTo, wcall, ownRan, dangling, pendingQ, pendingS, wsession>>

\* Line 125 with an empty queue, line 155, and lines 162-179: the lock is
\* released; when the update delay has elapsed the ten state requests are
\* enqueued, otherwise the worker sleeps 5 ms.
WorkerLeave ==
    /\ wpc = "loop"
    /\ writeQueue = <<>>
    /\ writeMutex' = "free"
    /\ \E elapsed \in BOOLEAN :
        IF elapsed /\ events < MaxEvents
        THEN /\ wtodo' = PollBattery
             /\ wret' = "top"
             /\ wpc' = "add"
             /\ events' = events + 1
        ELSE /\ wpc' = "top"
             /\ UNCHANGED <<wtodo, wret, events>>
    /\ UNCHANGED <<error_, writeQueue, socket, exit_, queueSize_, subQueueSize_,
                   songIdx_, queueChanged_, subQueueChanged_, queue_, subQueue_,
                   volume_, position_, queueMutex, wstr, queuedFunc, wire, ppc, preq,
                   pret, apc, reply, wtpc, wkind, done, wtret, rpc, rret, db, nextId,
                   nextSocket, pn, lastSent, lastHandled, clean, failedUpTo, wcall,
                   ownRan, dangling, pendingQ, pendingS, wsession>>

Front(q) == Head(q)

\* A pop that leaves the front command in the queue.
PopNothing(q) == q

Pop(q) == Tail(q)

\* A worker that keeps the queue in an error state.
KeepOnError(q, err) == q

\* The queue after lines 149-153: cleared when the error field is set.
ClearOnError(q, err) == IF err # "None" THEN <<>> ELSE q

\* A worker that goes on with the queue without reading the reply.
AfterWriteNoRead == "loop"

\* Lines 130-133: after a write that succeeded the worker reads the reply.
AfterWrite == "read"

\* Lines 125-129 and 149-153: writeMessage of the front request; when it
\* fails the error field is set and the queue cleared. A null socket is
\* dereferenced: the process dies.
WorkerWrite ==
    /\ wpc = "loop"
    /\ writeQueue # <<>>
    /\ IF socket.id = 0
       THEN /\ wpc' = "crashed"
            /\ UNCHANGED <<error_, writeQueue, wire, lastSent, clean, failedUpTo,
                            wsession>>
       ELSE \E ok \in (IF socket.up THEN BOOLEAN ELSE {FALSE}) :
            IF ok
            THEN /\ wire' = Append(wire, Front(writeQueue))
                 /\ wsession' = socket.id
                 /\ lastSent' = Front(writeQueue).id
                 /\ wpc' = AfterWrite
                 /\ UNCHANGED <<error_, writeQueue, clean, failedUpTo>>
            ELSE /\ error_' = "LostConnection"
                 /\ writeQueue' = ClearOnError(writeQueue, error_')
                 /\ failedUpTo' = MaxId(writeQueue)
                 /\ clean' = FALSE
                 /\ wpc' = "loop"
                 /\ UNCHANGED <<wire, lastSent, wsession>>
    /\ UNCHANGED <<writeMutex, socket, exit_, queueSize_, subQueueSize_, songIdx_,
                   queueChanged_, subQueueChanged_, queue_, subQueue_, volume_,
                   position_, queueMutex, wstr, queuedFunc, wtodo, wret, ppc, preq,
                   pret, apc, reply, wtpc, wkind, done, wtret, rpc, rret, db, nextId,
                   nextSocket, events, pn, lastHandled, wcall, ownRan, dangling,
                   pendingQ, pendingS>>

\* A worker that keeps the lock while the handler runs.
NoUnlock == "worker"

\* Line 141, mtx.unlock(): the state of writeMutex while the handler runs.
Unlock == "free"

\* Lines 133-141 and 149-153: readMessage; an empty reply is a failure,
\* otherwise the handler of the front command is copied and the lock released.
WorkerReadOf(service) ==
    /\ wpc = "read"
    /\ \E str \in RepliesTo(wire[1].msg, service) \cup {<<>>} :
        IF Len(str) = 0
        THEN /\ error_' = "LostConnection"
             /\ writeQueue' = ClearOnError(writeQueue, error_')
             /\ failedUpTo' = MaxId(writeQueue)
             /\ clean' = FALSE
             /\ wpc' = "loop"
             /\ UNCHANGED <<wstr, queuedFunc, writeMutex>>
        ELSE /\ wstr' = [to |-> wire[1].id, text |-> str]
             /\ queuedFunc' = [id |-> Front(writeQueue).id, f |-> Front(writeQueue).f,
                               call |-> Front(writeQueue).call]
             /\ writeMutex' = Unlock
             /\ wpc' = "handler"
             /\ UNCHANGED <<error_, writeQueue, clean, failedUpTo>>
    /\ wire' = Tail(wire)
    /\ wsession' = 0
    /\ UNCHANGED <<socket, exit_, queueSize_, subQueueSize_, songIdx_, queueChanged_,
                   subQueueChanged_, queue_, subQueue_, volume_, position_, queueMutex,
                   wtodo, wret, ppc, preq, pret, apc, reply, wtpc, wkind, done, wtret,
                   rpc, rret, db, nextId, nextSocket, events, pn, lastSent, lastHandled,
                   wcall, ownRan, dangling, pendingQ, pendingS>>

WorkerRead == WorkerReadOf(PlainService)

\* The requests a handler enqueues before it stores the reply: the size and
\* index handlers fetch the queues again when the value has changed, the
\* handler of SetShuffle fetches the queue always.
FollowUps(f, s) ==
    CASE f = "sendGetQueueSize" ->
            IF queueSize_ # Stoi(s) THEN << sendGetQueue(0, QueueFetchEnd) >> ELSE <<>>
      [] f = "sendGetSubQueueSize" ->
            IF subQueueSize_ # Stoi(s) THEN << sendGetSubQueue(0, SubQueueFetchEnd) >> ELSE <<>>
      [] f = "sendGetSongIdx" ->
            IF songIdx_ # Stoi(s)
            THEN << sendGetQueue(0, QueueFetchEnd), sendGetSubQueue(0, SubQueueFetchEnd) >>
            ELSE <<>>
      [] f = "sendSetShuffle" -> << sendGetQueue(0, QueueFetchEnd) >>
      [] OTHER -> <<>>

\* The blocking call is between its declaration of done and its return.
InCall == wtpc \in {"push", "test", "sleep"}

\* `done = true` in the handler of a blocking call. done is a local of the
\* call, captured by reference: when that call has returned the reference
\* dangles and the store is undefined; it may be lost or land in the done of
\* the call now in progress, which occupies the same stack slot.
StoreDone(call) ==
    IF call = 0 THEN UNCHANGED <<done, ownRan, dangling>>
    ELSE IF call = wcall /\ InCall
    THEN /\ done' = TRUE
         /\ ownRan' = TRUE
         /\ UNCHANGED dangling
    ELSE /\ dangling' = TRUE
         /\ \E lands \in BOOLEAN : done' = IF lands /\ InCall THEN TRUE ELSE done
         /\ UNCHANGED ownRan

\* What a handler stores in the cached state. The handler of GetQueue
\* stores under queueMutex (line 408), which it takes and releases within
\* the step.
HandlerStores(f, s) ==
    /\ f = "sendGetQueue" => queueMutex = "free"
    /\ queueMutex' = queueMutex
    /\ queueSize_' = IF f = "sendGetQueueSize" THEN Stoi(s) ELSE queueSize_
    /\ subQueueSize_' = IF f = "sendGetSubQueueSize" THEN Stoi(s) ELSE subQueueSize_
    /\ songIdx_' = IF f \in {"sendGetSongIdx", "waitSongIdx"} THEN Stoi(s) ELSE songIdx_
    /\ queueChanged_' = IF f = "sendGetQueue" THEN TRUE ELSE queueChanged_
    /\ subQueueChanged_' = IF f = "sendGetSubQueue" THEN TRUE ELSE subQueueChanged_
    /\ pendingQ' = IF f = "sendGetQueue" THEN TRUE ELSE pendingQ
    /\ pendingS' = IF f = "sendGetSubQueue" THEN TRUE ELSE pendingS
    /\ volume_' = IF f \in {"sendGetVolume", "sendSetVolume"} THEN Stod(s) ELSE volume_
    /\ position_' = IF f \in {"sendGetPosition", "sendSetPosition"} THEN Stod(s)
                    ELSE position_
    /\ \E tail \in DelimiterTails :
        /\ queue_' = IF f = "sendGetQueue" THEN ParseQueue(s, tail) ELSE queue_
        /\ subQueue_' = IF f = "sendGetSubQueue" THEN ParseQueue(s, tail) ELSE subQueue_

\* The handlers that parse the reply with std::stod, and those that do not
\* parse it with a function that throws: the queue handlers use strtol, the
\* playing-from handler stores the string, the handler of waitReset ignores
\* it. All others use std::stoi or std::stoul.
StodHandlers == {"sendGetVolume", "sendSetVolume", "sendGetPosition", "sendSetPosition"}
NoThrowHandlers == {"sendGetQueue", "sendGetSubQueue", "sendGetPlayingFrom", "waitReset"}

\* std::stoi, std::stoul and std::stod throw std::invalid_argument when the
\* string starts with no number; it is the first statement of the handler.
Throws(f, s) ==
    /\ f \notin NoThrowHandlers
    /\ \/ s = <<>>
       \/ /\ ~IsDigit(Head(s))
          /\ ~(f \in StodHandlers /\ Head(s) = Dot /\ Len(s) >= 2 /\ IsDigit(s[2]))

\* Line 142: queuedFunc(str), up to its first addToWriteQueue or, when it
\* makes none, to its end. process() has no try block: an exception of the
\* handler leaves process(), whose thread ends.
WorkerHandler ==
    /\ wpc = "handler"
    /\ lastHandled' = queuedFunc.id
    /\ LET todo == FollowUps(queuedFunc.f, wstr.text) IN
       IF Throws(queuedFunc.f, wstr.text)
       THEN /\ wpc' = "thrown"
            /\ UNCHANGED <<wtodo, wret, cacheVars, pendingQ, pendingS, done, ownRan,
                           dangling>>
       ELSE IF todo = <<>>
       THEN /\ HandlerStores(queuedFunc.f, wstr.text)
            /\ StoreDone(queuedFunc.call)
            /\ wpc' = "relock"
            /\ UNCHANGED <<wtodo, wret>>
       ELSE /\ wtodo' = todo
            /\ wret' = "h_end"
            /\ wpc' = "add"
            /\ UNCHANGED <<cacheVars, pendingQ, pendingS, done, ownRan, dangling>>
    /\ UNCHANGED <<error_, writeQueue, writeMutex, socket, exit_, wstr, queuedFunc,
                   wire, ppc, preq, pret, apc, reply, wtpc, wkind, wtret, rpc, rret, db,
                   nextId, nextSocket, events, pn, lastSent, clean, failedUpTo, wcall,
                   wsession>>

\* addToWriteQueue called on the worker thread (by a handler or by the poll),
\* line 17: a request made in an error state is dropped.
WorkerAdd ==
    /\ wpc = "add"
    /\ IF Accepts(error_)
       THEN /\ wpc' = "add_push"
            /\ UNCHANGED wtodo
       ELSE /\ wtodo' = Tail(wtodo)
            /\ wpc' = IF Tail(wtodo) = <<>> THEN wret ELSE "add"
    /\ UNCHANGED <<error_, writeQueue, writeMutex, socket, exit_, queueSize_,
                   subQueueSize_, songIdx_, queueChanged_, subQueueChanged_, queue_,
                   subQueue_, volume_, position_, queueMutex, wstr, queuedFunc, wret,
                   wire, ppc, preq, pret, apc, reply, wtpc, wkind, done, wtret, rpc,
                   rret, db, nextId, nextSocket, events, pn, lastSent, lastHandled,
                   clean, failedUpTo, wcall, ownRan, dangling, pendingQ, pendingS,
                   wsession>>

\* addToWriteQueue on the worker thread, lines 21-23.
WorkerAddPush ==
    /\ wpc = "add_push"
    /\ writeMutex = "free"
    /\ writeQueue' = Push(writeQueue, Command(Head(wtodo), 0))
    /\ nextId' = nextId + 1
    /\ wtodo' = Tail(wtodo)
    /\ wpc' = IF Tail(wtodo) = <<>> THEN wret ELSE "add"
    /\ UNCHANGED <<error_, writeMutex, socket, exit_, queueSize_, subQueueSize_,
                   songIdx_, queueChanged_, subQueueChanged_, queue_, subQueue_,
                   volume_, position_, queueMutex, wstr, queuedFunc, wret, wire, ppc,
                   preq, pret, apc, reply, wtpc, wkind, done, wtret, rpc, rret, db,
                   nextSocket, events, pn, lastSent, lastHandled, clean, failedUpTo,
                   wcall, ownRan, dangling, pendingQ, pendingS, wsession>>

\* The end of a handler that enqueued requests: the reply is stored.
WorkerHandlerEnd ==
    /\ wpc = "h_end"
    /\ HandlerStores(queuedFunc.f, wstr.text)
    /\ StoreDone(queuedFunc.call)
    /\ wpc' = "relock"
    /\ UNCHANGED <<error_, writeQueue, writeMutex, socket, exit_, wstr, queuedFunc,
                   wtodo, wret, wire, ppc, preq, pret, apc, reply, wtpc, wkind, done,
                   wtret, rpc, rret, db, nextId, nextSocket, events, pn, lastSent,
                   lastHandled, clean, failedUpTo, wcall, ownRan, dangling, wsession>>

\* Lines 143-153: mtx.lock(), writeQueue.pop(), and the queue is cleared
\* when the error field is set. The locals str and queuedFunc end here.
WorkerPop ==
    /\ wpc = "relock"
    /\ writeMutex = "free"
    /\ writeMutex' = "worker"
    /\ writeQueue' = ClearOnError(Pop(writeQueue), error_)
    /\ wstr' = NoReply
    /\ queuedFunc' = NoFunc
    /\ wpc' = "loop"
    /\ UNCHANGED <<error_, socket, exit_, queueSize_, subQueueSize_, songIdx_,
                   queueChanged_, subQueueChanged_, queue_, subQueue_, volume_,
                   position_, queueMutex, wtodo, wret, wire, ppc, preq, pret, apc,
                   reply, wtpc, wkind, done, wtret, rpc, rret, db, nextId, nextSocket,
                   events, pn, lastSent, lastHandled, clean, failedUpTo, wcall, ownRan,
                   dangling, pendingQ, pendingS, wsession>>

Worker ==
    \/ WorkerTop \/ WorkerLock \/ WorkerLeave \/ WorkerWrite \/ WorkerRead
    \/ WorkerHandler \/ WorkerAdd \/ WorkerAddPush \/ WorkerHandlerEnd
    \/ WorkerPop

\* The worker with a service that answers GetQueue with lists.
WorkerReadList == WorkerReadOf(ListService)

WorkerOnLists ==
    \/ WorkerTop \/ WorkerLock \/ WorkerLeave \/ WorkerWrite \/ WorkerReadList
    \/ WorkerHandler \/ WorkerAdd \/ WorkerAddPush \/ WorkerHandlerEnd
    \/ WorkerPop

\* ---------------------------------------------------------- producers
\* A fire-and-forget facade call: addToWriteQueue, line 17.
ProducerCallOf(p, calls) ==
    /\ Alive
    /\ ppc[p] = "idle"
    /\ events < MaxEvents
    /\ events' = events + 1
    /\ pn' = [pn EXCEPT ![p] = @ + 1]
    /\ \E req \in calls :
        /\ preq' = [preq EXCEPT ![p] = req]
        /\ IF Accepts(error_)
           THEN /\ ppc' = [ppc EXCEPT ![p] = "push"]
                /\ UNCHANGED pret
           ELSE /\ pret' = [pret EXCEPT ![p] = FALSE]
                /\ UNCHANGED ppc
    /\ UNCHANGED <<error_, writeQueue, writeMutex, socket, exit_, queueSize_,
                   subQueueSize_, songIdx_, queueChanged_, subQueueChanged_, queue_,
                   subQueue_, volume_, position_, queueMutex, wpc, wstr, queuedFunc,
                   wtodo, wret, wire, apc, reply, wtpc, wkind, done, wtret, rpc, rret,
                   db, nextId, nextSocket, lastSent, lastHandled, clean, failedUpTo,
                   wcall, ownRan, dangling, pendingQ, pendingS, wsession>>

ProducerCall(p) == ProducerCallOf(p, FacadeCalls)

\* Sysmodule::sendSetVolume called by a producer thread.
SetVolumeCall(p) == ProducerCallOf(p, VolumeCalls)

\* Sysmodule::sendSetShuffle called by a producer thread.
SetShuffleCall(p) == ProducerCallOf(p, ShuffleCalls)

\* Sysmodule::sendSetPosition called by a producer thread, lines 600-602:
\* position_ is assigned on the caller's thread, then addToWriteQueue is
\* called (line 17).
SetPositionCall(p) ==
    /\ Alive
    /\ ppc[p] = "idle"
    /\ events < MaxEvents
    /\ events' = events + 1
    /\ pn' = [pn EXCEPT ![p] = @ + 1]
    /\ \E pos \in Positions :
        /\ position_' = pos
        /\ preq' = [preq EXCEPT ![p] = sendSetPosition(pos)]
        /\ IF Accepts(error_)
           THEN /\ ppc' = [ppc EXCEPT ![p] = "push"]
                /\ UNCHANGED pret
           ELSE /\ pret' = [pret EXCEPT ![p] = FALSE]
                /\ UNCHANGED ppc
    /\ UNCHANGED <<error_, writeQueue, writeMutex, socket, exit_, queueSize_,
                   subQueueSize_, songIdx_, queueChanged_, subQueueChanged_, queue_,
                   subQueue_, volume_, queueMutex, wpc, wstr, queuedFunc, wtodo, wret,
                   wire, apc, reply, wtpc, wkind, done, wtret, rpc, rret, db, nextId,
                   nextSocket, lastSent, lastHandled, clean, failedUpTo, wcall, ownRan,
                   dangling, pendingQ, pendingS, wsession>>

\* addToWriteQueue, lines 21-23: push under the lock and return true.
ProducerPush(p) ==
    /\ Alive
    /\ ppc[p] = "push"
    /\ writeMutex = "free"
    /\ writeQueue' = Push(writeQueue, Command(preq[p], 0))
    /\ nextId' = nextId + 1
    /\ pret' = [pret EXCEPT ![p] = TRUE]
    /\ ppc' = [ppc EXCEPT ![p] = "idle"]
    /\ UNCHANGED <<error_, writeMutex, socket, exit_, queueSize_, subQueueSize_,
                   songIdx_, queueChanged_, subQueueChanged_, queue_, subQueue_,
                   volume_, position_, queueMutex, wpc, wstr, queuedFunc, wtodo, wret,
                   wire, preq, apc, reply, wtpc, wkind, done, wtret, rpc, rret, db,
                   nextSocket, events, pn, lastSent, lastHandled, clean, failedUpTo,
                   wcall, ownRan, dangling, pendingQ, pendingS, wsession>>

\* -------------------------------------------------- application thread
\* Sysmodule::terminate when terminateProgram succeeds: the error field is
\* set (when it fails nothing changes). It is called while the application
\* runs, before its destructor calls exit().
Terminate ==
    /\ Alive
    /\ ~exit_
    /\ events < MaxEvents
    /\ events' = events + 1
    /\ error_' = "LostConnection"
    /\ writeQueue' = MarkLost(writeQueue, nextSocket)
    /\ clean' = FALSE
    /\ UNCHANGED <<writeMutex, socket, exit_, queueSize_, subQueueSize_, songIdx_,
                   queueChanged_, subQueueChanged_, queue_, subQueue_, volume_,
                   position_, queueMutex, wpc, wstr, queuedFunc, wtodo, wret, wire, ppc,
                   preq, pret, apc, reply, wtpc, wkind, done, wtret, rpc, rret, db,
                   nextId, nextSocket, pn, lastSent, lastHandled, failedUpTo, wcall,
                   ownRan, dangling, pendingQ, pendingS, wsession>>

\* A reconnect() that does not wait for writeMutex.
ReconnectNoLock(m) == TRUE

\* Line 64, std::scoped_lock mtx(writeMutex): reconnect() goes on when
\* nobody holds the mutex.
ReconnectLock(m) == m = "free"

\* Application::run, lines 118-119, and Sysmodule::reconnect, lines 63-80:
\* writeMutex is taken, the old socket deleted and a new one fetched; without
\* a connected socket reconnect() returns, otherwise the version request is
\* written and its reply read.
ReconnectBegin ==
    /\ Alive
    /\ ~exit_
    /\ apc = "idle"
    /\ error_ = "LostConnection"
    /\ ReconnectLock(writeMutex)
    /\ events < MaxEvents
    /\ events' = events + 1
    /\ nextSocket' = nextSocket + 1
    /\ \E res \in SocketResults :
        /\ socket' = NewSocket(res, nextSocket + 1)
        /\ IF ~IsConnected(socket')
           THEN /\ error_' = ReconnectError(FALSE, <<>>)
                /\ UNCHANGED <<writeMutex, apc, reply>>
           ELSE /\ \E version \in VersionReplies : reply' = version
                /\ writeMutex' = "app"
                /\ apc' = "handshake"
                /\ UNCHANGED error_
    /\ UNCHANGED <<writeQueue, exit_, queueSize_, subQueueSize_, songIdx_,
                   queueChanged_, subQueueChanged_, queue_, subQueue_, volume_,
                   position_, queueMutex, wpc, wstr, queuedFunc, wtodo, wret, wire, ppc,
                   preq, pret, wtpc, wkind, done, wtret, rpc, rret, db, nextId, pn,
                   lastSent, lastHandled, clean, failedUpTo, wcall, ownRan, dangling,
                   pendingQ, pendingS, wsession>>

\* Sysmodule::reconnect, lines 81-99: the error field is set from the reply
\* and writeMutex released.
ReconnectEnd ==
    /\ Alive
    /\ apc = "handshake"
    /\ error_' = ReconnectError(TRUE, reply)
    /\ writeMutex' = "free"
    /\ apc' = "idle"
    /\ reply' = <<>>
    /\ UNCHANGED <<writeQueue, socket, exit_, queueSize_, subQueueSize_, songIdx_,
                   queueChanged_, subQueueChanged_, queue_, subQueue_, volume_,
                   position_, queueMutex, wpc, wstr, queuedFunc, wtodo, wret, wire, ppc,
                   preq, pret, wtpc, wkind, done, wtret, rpc, rret, db, nextId,
                   nextSocket, events, pn, lastSent, lastHandled, clean, failedUpTo,
                   wcall, ownRan, dangling, pendingQ, pendingS, wsession>>

\* Application::~Application, line 140: Sysmodule::exit sets the exit flag;
\* the destructor runs on the thread of Application::run, after its loop.
Exit ==
    /\ Alive
    /\ apc = "idle"
    /\ ~exit_
    /\ events < MaxEvents
    /\ events' = events + 1
    /\ exit_' = TRUE
    /\ UNCHANGED <<error_, writeQueue, writeMutex, socket, queueSize_, subQueueSize_,
                   songIdx_, queueChanged_, subQueueChanged_, queue_, subQueue_,
                   volume_, position_, queueMutex, wpc, wstr, queuedFunc, wtodo, wret,
                   wire, ppc, preq, pret, apc, reply, wtpc, wkind, done, wtret, rpc,
                   rret, db, nextId, nextSocket, pn, lastSent, lastHandled, clean,
                   failedUpTo, wcall, ownRan, dangling, pendingQ, pendingS, wsession>>

\* ------------------------------------------------------ blocking calls
\* waitRequestDBLock / waitReset / waitSongIdx up to the check of line 17 in
\* addToWriteQueue, whose result is ignored: done is declared false.
WaitCallOf(req, database) ==
    /\ Alive
    /\ wtpc \in {"idle", "returned"}
    /\ wcall < MaxWaits
    /\ wcall' = wcall + 1
    /\ wkind' = req
    /\ done' = FALSE
    /\ ownRan' = FALSE
    /\ wtret' = NoValue
    /\ wtpc' = IF Accepts(error_) THEN "push" ELSE "test"
    /\ db' = database
    /\ UNCHANGED <<error_, writeQueue, writeMutex, socket, exit_, queueSize_,
                   subQueueSize_, songIdx_, queueChanged_, subQueueChanged_, queue_,
                   subQueue_, volume_, position_, queueMutex, wpc, wstr, queuedFunc,
                   wtodo, wret, wire, ppc, preq, pret, apc, reply, rpc, rret, nextId,
                   nextSocket, events, pn, lastSent, lastHandled, clean, failedUpTo,
                   dangling, pendingQ, pendingS, wsession>>

WaitCall == \E req \in WaitCalls : WaitCallOf(req, db)

\* Application::lockDatabase, lines 87-88: the database is closed and
\* waitRequestDBLock called.
LockDatabaseBegin == WaitCallOf(waitRequestDBLock, "closed")

\* Application::lockDatabase, line 89: after waitRequestDBLock has returned,
\* whatever it returned, the database is opened read-write.
LockDatabaseEnd ==
    /\ Alive
    /\ wtpc = "returned"
    /\ db = "closed"
    /\ db' = "readWrite"
    /\ UNCHANGED <<error_, writeQueue, writeMutex, socket, exit_, queueSize_,
                   subQueueSize_, songIdx_, queueChanged_, subQueueChanged_, queue_,
                   subQueue_, volume_, position_, queueMutex, wpc, wstr, queuedFunc,
                   wtodo, wret, wire, ppc, preq, pret, apc, reply, wtpc, wkind, done,
                   wtret, rpc, rret, nextId, nextSocket, events, pn, lastSent,
                   lastHandled, clean, failedUpTo, wcall, ownRan, dangling, pendingQ,
                   pendingS, wsession>>

\* addToWriteQueue, lines 21-23, in a blocking call.
WaitPush ==
    /\ Alive
    /\ wtpc = "push"
    /\ writeMutex = "free"
    /\ writeQueue' = Push(writeQueue, Command(wkind, wcall))
    /\ nextId' = nextId + 1
    /\ wtpc' = "test"
    /\ UNCHANGED <<error_, writeMutex, socket, exit_, queueSize_, subQueueSize_,
                   songIdx_, queueChanged_, subQueueChanged_, queue_, subQueue_,
                   volume_, position_, queueMutex, wpc, wstr, queuedFunc, wtodo, wret,
                   wire, ppc, preq, pret, apc, reply, wkind, done, wtret, rpc, rret, db,
                   nextSocket, events, pn, lastSent, lastHandled, clean, failedUpTo,
                   wcall, ownRan, dangling, pendingQ, pendingS, wsession>>

\* What a blocking call returns. ok: true, or an index that is not the
\* maximum size_t; val: the index waitSongIdx returns.
Success(f) == [ok |-> TRUE, val |-> IF f = "waitSongIdx" THEN songIdx_ ELSE 0]
Failure(f) == [ok |-> FALSE, val |-> 0]

\* `while (!done)` and the return after the loop.
WaitTest ==
    /\ Alive
    /\ wtpc = "test"
    /\ IF done
       THEN /\ wtret' = Success(wkind.f)
            /\ wtpc' = "returned"
       ELSE /\ wtpc' = "sleep"
            /\ UNCHANGED wtret
    /\ UNCHANGED <<error_, writeQueue, writeMutex, socket, exit_, queueSize_,
                   subQueueSize_, songIdx_, queueChanged_, subQueueChanged_, queue_,
                   subQueue_, volume_, position_, queueMutex, wpc, wstr, queuedFunc,
                   wtodo, wret, wire, ppc, preq, pret, apc, reply, wkind, done, rpc,
                   rret, db, nextId, nextSocket, events, pn, lastSent, lastHandled,
                   clean, failedUpTo, wcall, ownRan, dangling, pendingQ, pendingS,
                   wsession>>

\* The body of the loop: sleep 5 ms, return the failure value in an error
\* state.
WaitSleep ==
    /\ Alive
    /\ wtpc = "sleep"
    /\ IF error_ # "None"
       THEN /\ wtret' = Failure(wkind.f)
            /\ wtpc' = "returned"
       ELSE /\ wtpc' = "test"
            /\ UNCHANGED wtret
    /\ UNCHANGED <<error_, writeQueue, writeMutex, socket, exit_, queueSize_,
                   subQueueSize_, songIdx_, queueChanged_, subQueueChanged_, queue_,
                   subQueue_, volume_, position_, queueMutex, wpc, wstr, queuedFunc,
                   wtodo, wret, wire, ppc, preq, pret, apc, reply, wkind, done, rpc,
                   rret, db, nextId, nextSocket, events, pn, lastSent, lastHandled,
                   clean, failedUpTo, wcall, ownRan, dangling, pendingQ, pendingS,
                   wsession>>

WaitStep == WaitPush \/ WaitTest \/ WaitSleep

\* ---------------------------------------------------- the change flags
\* queueChanged(), line 198 (and lines 203): the test of the flag.
QueueChangedTest ==
    /\ Alive
    /\ rpc = "idle"
    /\ IF queueChanged_
       THEN /\ rpc' = "queueChanged"
            /\ pendingQ' = FALSE
            /\ UNCHANGED rret
       ELSE /\ rret' = FALSE
            /\ UNCHANGED <<rpc, pendingQ>>
    /\ UNCHANGED <<error_, writeQueue, writeMutex, socket, exit_, queueSize_,
                   subQueueSize_, songIdx_, queueChanged_, subQueueChanged_, queue_,
                   subQueue_, volume_, position_, queueMutex, wpc, wstr, queuedFunc,
                   wtodo, wret, wire, ppc, preq, pret, apc, reply, wtpc, wkind, done,
                   wtret, db, nextId, nextSocket, events, pn, lastSent, lastHandled,
                   clean, failedUpTo, wcall, ownRan, dangling, pendingS, wsession>>

\* queueChanged(), lines 199-200: the flag is reset and true returned.
QueueChangedClear ==
    /\ Alive
    /\ rpc = "queueChanged"
    /\ queueChanged_' = FALSE
    /\ rret' = TRUE
    /\ rpc' = "idle"
    /\ UNCHANGED <<error_, writeQueue, writeMutex, socket, exit_, queueSize_,
                   subQueueSize_, songIdx_, subQueueChanged_, queue_, subQueue_,
                   volume_, position_, queueMutex, wpc, wstr, queuedFunc, wtodo, wret,
                   wire, ppc, preq, pret, apc, reply, wtpc, wkind, done, wtret, db,
                   nextId, nextSocket, events, pn, lastSent, lastHandled, clean,
                   failedUpTo, wcall, ownRan, dangling, pendingQ, pendingS, wsession>>

\* subQueueChanged(), line 228 (and line 233).
SubQueueChangedTest ==
    /\ Alive
    /\ rpc = "idle"
    /\ IF subQueueChanged_
       THEN /\ rpc' = "subQueueChanged"
            /\ pendingS' = FALSE
            /\ UNCHANGED rret
       ELSE /\ rret' = FALSE
            /\ UNCHANGED <<rpc, pendingS>>
    /\ UNCHANGED <<error_, writeQueue, writeMutex, socket, exit_, queueSize_,
                   subQueueSize_, songIdx_, queueChanged_, subQueueChanged_, queue_,
                   subQueue_, volume_, position_, queueMutex, wpc, wstr, queuedFunc,
                   wtodo, wret, wire, ppc, preq, pret, apc, reply, wtpc, wkind, done,
                   wtret, db, nextId, nextSocket, events, pn, lastSent, lastHandled,
                   clean, failedUpTo, wcall, ownRan, dangling, pendingQ, wsession>>

\* subQueueChanged(), lines 229-230.
SubQueueChangedClear ==
    /\ Alive
    /\ rpc = "subQueueChanged"
    /\ subQueueChanged_' = FALSE
    /\ rret' = TRUE
    /\ rpc' = "idle"
    /\ UNCHANGED <<error_, writeQueue, writeMutex, socket, exit_, queueSize_,
                   subQueueSize_, songIdx_, queueChanged_, queue_, subQueue_, volume_,
                   position_, queueMutex, wpc, wstr, queuedFunc, wtodo, wret, wire, ppc,
                   preq, pret, apc, reply, wtpc, wkind, done, wtret, db, nextId,
                   nextSocket, events, pn, lastSent, lastHandled, clean, failedUpTo,
                   wcall, ownRan, dangling, pendingQ, pendingS, wsession>>

\* Sysmodule::queue(), line 207: a reader takes queueMutex.
QueueLock ==
    /\ Alive
    /\ queueMutex = "free"
    /\ queueMutex' = "reader"
    /\ UNCHANGED <<error_, writeQueue, writeMutex, socket, exit_, queueSize_,
                   subQueueSize_, songIdx_, queueChanged_, subQueueChanged_, queue_,
                   subQueue_, volume_, position_, wpc, wstr, queuedFunc, wtodo, wret,
                   wire, ppc, preq, pret, apc, reply, wtpc, wkind, done, wtret, rpc,
                   rret, db, nextId, nextSocket, events, pn, lastSent, lastHandled,
                   clean, failedUpTo, wcall, ownRan, dangling, pendingQ, pendingS,
                   wsession>>

\* Sysmodule::queue(), lines 208-209: the copy of the cached queue is
\* returned and queueMutex released.
QueueUnlock ==
    /\ Alive
    /\ queueMutex = "reader"
    /\ queueMutex' = "free"
    /\ UNCHANGED <<error_, writeQueue, writeMutex, socket, exit_, queueSize_,
                   subQueueSize_, songIdx_, queueChanged_, subQueueChanged_, queue_,
                   subQueue_, volume_, position_, wpc, wstr, queuedFunc, wtodo, wret,
                   wire, ppc, preq, pret, apc, reply, wtpc, wkind, done, wtret, rpc,
                   rret, db, nextId, nextSocket, events, pn, lastSent, lastHandled,
                   clean, failedUpTo, wcall, ownRan, dangling, pendingQ, pendingS,
                   wsession>>

Reader ==
    \/ QueueChangedTest \/ QueueChangedClear
    \/ SubQueueChangedTest \/ SubQueueChangedClear

Next ==
    \/ Worker
    \/ \E p \in Producers : ProducerCall(p) \/ ProducerPush(p)
    \/ Terminate
    \/ ReconnectBegin
    \/ ReconnectEnd

Spec == Init /\ [][Next]_vars

\* The engine with a thread making blocking calls; every thread that can
\* take a step eventually takes one.
NextWait ==
    \/ Worker
    \/ WaitCall
    \/ WaitStep
    \/ Terminate
    \/ ReconnectBegin
    \/ ReconnectEnd

SpecWait ==
    /\ Init /\ [][NextWait]_vars
    /\ WF_vars(Worker) /\ WF_vars(WaitStep) /\ WF_vars(ReconnectEnd)

\* The engine up to and after the exit of the application: once the
\* destructor has called exit() the application thread terminates and
\* reconnects no more, and the worker keeps taking steps.
NextExit ==
    \/ Worker
    \/ Exit
    \/ Terminate
    \/ ReconnectBegin
    \/ ReconnectEnd

SpecExit == Init /\ [][NextExit]_vars /\ WF_vars(Worker) /\ WF_vars(ReconnectEnd)

\* The engine with all its threads: the worker, producers whose calls have
\* handlers that enqueue, a reader of the cached queue and the application
\* thread that reconnects.
NextThreads ==
    \/ Worker
    \/ \E p \in Producers : SetShuffleCall(p)
    \/ \E p \in Producers : ProducerPush(p)
    \/ QueueLock
    \/ QueueUnlock
    \/ ReconnectBegin
    \/ ReconnectEnd

SpecThreads == Init /\ [][NextThreads]_vars

\* The engine with a service whose queues do not change, a worker whose
\* update delay elapses again and again, connection losses and reconnects.
WorkerReadStable == WorkerReadOf(StableService)

WorkerOnStable ==
    \/ WorkerTop \/ WorkerLock \/ WorkerSleep \/ WorkerWrite \/ WorkerReadStable
    \/ WorkerHandler \/ WorkerAdd \/ WorkerAddPush \/ WorkerHandlerEnd
    \/ WorkerPop

NextStable ==
    \/ WorkerOnStable
    \/ WorkerPoll
    \/ Terminate
    \/ ReconnectBegin
    \/ ReconnectEnd

SpecStable == Init /\ [][NextStable]_vars

\* The engine with a service whose replies may spell no number.
WorkerReadGarbled == WorkerReadOf(GarbledService)

WorkerOnGarbled ==
    \/ WorkerTop \/ WorkerLock \/ WorkerLeave \/ WorkerWrite \/ WorkerReadGarbled
    \/ WorkerHandler \/ WorkerAdd \/ WorkerAddPush \/ WorkerHandlerEnd
    \/ WorkerPop

NextGarbled ==
    \/ WorkerOnGarbled
    \/ \E p \in Producers : ProducerCall(p)
    \/ \E p \in Producers : ProducerPush(p)

SpecGarbled == Init /\ [][NextGarbled]_vars

\* The engine with producers that seek.
NextPosition ==
    \/ Worker
    \/ \E p \in Producers : SetPositionCall(p)
    \/ \E p \in Producers : ProducerPush(p)

SpecPosition == Init /\ [][NextPosition]_vars

\* The engine with producers that set the volume and a service that answers
\* with any volume.
WorkerReadVolume == WorkerReadOf(VolumeService)

WorkerOnVolumes ==
    \/ WorkerTop \/ WorkerLock \/ WorkerLeave \/ WorkerWrite \/ WorkerReadVolume
    \/ WorkerHandler \/ WorkerAdd \/ WorkerAddPush \/ WorkerHandlerEnd
    \/ WorkerPop

NextVolume ==
    \/ WorkerOnVolumes
    \/ \E p \in Producers : SetVolumeCall(p)
    \/ \E p \in Producers : ProducerPush(p)

SpecVolume == Init /\ [][NextVolume]_vars

\* The engine with a service that answers GetQueue with lists, and a thread
\* reading the change flag of the queue.
NextQueue ==
    \/ WorkerOnLists
    \/ QueueChangedTest
    \/ QueueChangedClear

SpecQueue == Init /\ [][NextQueue]_vars

\* The engine with a thread calling Application::lockDatabase.
NextLock ==
    \/ Worker
    \/ LockDatabaseBegin
    \/ WaitStep
    \/ LockDatabaseEnd
    \/ Terminate
    \/ ReconnectBegin
    \/ ReconnectEnd

SpecLock == Init /\ [][NextLock]_vars

\* The engine with a thread reading the change flags.
NextFlags ==
    \/ Worker
    \/ Reader
    \/ Terminate
    \/ ReconnectBegin
    \/ ReconnectEnd

SpecFlags == Init /\ [][NextFlags]_vars

\* ------------------------------------------------------------- claims
\* C1: while no error has occurred, the worker sends the requests and invokes
\* the handlers in exactly the order of the pushes (the pushes are numbered
\* 1, 2, 3, ...), one exchange at a time, and each handler receives the reply
\* to its own request; in every run a later send is of a later push.
C1Theorem ==
    /\ [](lastHandled <= lastSent)
    /\ [][ /\ lastSent' # lastSent => lastSent' > lastSent
           /\ lastHandled' # lastHandled => wstr.to = lastHandled'
           /\ clean' => /\ lastSent' # lastSent =>
                              lastSent' = lastSent + 1 /\ lastHandled = lastSent
                        /\ lastHandled' # lastHandled => lastHandled' = lastHandled + 1
         ]_vars

\* Both producers have pushed and four commands were handled without error.
C1Witness == clean /\ lastHandled = 4 /\ \A p \in Producers : pn[p] = 1

\* C2: when writeMessage fails or readMessage returns nothing, the error field
\* becomes LostConnection and the queue is emptied in the same critical
\* section without a handler running; none of the commands queued at that
\* moment is queued, sent or handled afterwards.
C2Theorem ==
    /\ [](/\ \A i \in DOMAIN writeQueue : writeQueue[i].id > failedUpTo
          /\ wire # <<>> => wire[1].id > failedUpTo
          /\ queuedFunc # NoFunc => queuedFunc.id > failedUpTo)
    /\ [][ failedUpTo' # failedUpTo =>
             /\ error_' = "LostConnection"
             /\ writeQueue # <<>> /\ writeQueue' = <<>>
             /\ failedUpTo' = writeQueue[Len(writeQueue)].id
             /\ lastHandled' = lastHandled /\ lastHandled < Head(writeQueue).id
             /\ wpc' = "loop"
       ]_vars
    /\ [][ lastHandled' # lastHandled => lastHandled' > failedUpTo ]_vars

\* The exchange of command 1 failed with three more commands queued.
C2Witness ==
    /\ failedUpTo = 4 /\ lastHandled = 0
    /\ error_ = "LostConnection" /\ writeQueue = <<>>

C4Claim ==
    [][ (lastSent' # lastSent \/ (wpc = "read" /\ wpc' # "read")) => error_ = "None" ]_vars

\* C5 (as claimed): a command that was queued when the connection was lost is
\* never sent on the session of a later reconnect.
C5Claim == wire # <<>> => wire[1].lostOn \in {0, nextSocket}

\* C6: addToWriteQueue in an error state returns false and leaves the queue
\* as it is; otherwise it appends exactly its (request, handler) pair at the
\* back and returns true.
C6Theorem ==
    [][ \A p \in Producers :
          /\ pn'[p] # pn[p] =>
                /\ writeQueue' = writeQueue
                /\ IF error_ # "None"
                   THEN pret'[p] = FALSE /\ ppc'[p] = "idle"
                   ELSE ppc'[p] = "push"
          /\ (ppc[p] = "push" /\ ppc'[p] = "idle") =>
                /\ pret'[p] = TRUE
                /\ Len(writeQueue') = Len(writeQueue) + 1
                /\ SubSeq(writeQueue', 1, Len(writeQueue)) = writeQueue
                /\ writeQueue'[Len(writeQueue')].msg = preq[p].msg
                /\ writeQueue'[Len(writeQueue')].f = preq[p].f
      ]_vars

\* One call was refused and one accepted and pushed behind other commands.
C6Witness ==
    \E p, q \in Producers :
        /\ p # q /\ pn[p] = 1 /\ pn[q] = 1
        /\ ppc[p] = "idle" /\ ppc[q] = "idle"
        /\ pret[p] = FALSE /\ pret[q] = TRUE
        /\ nextId = 3 /\ error_ = "LostConnection"

\* C7 (as claimed): a blocking call in progress eventually returns.
C7Claim == InCall ~> wtpc = "returned"

\* C8 (as claimed): a blocking call returns success only if the handler of
\* the command it enqueued has run.
C8Claim == (wtpc = "returned" /\ wtret.ok) => ownRan

\* C9 (as claimed): a notification made by a GetQueue or GetSubQueue handler
\* that no read has reported yet is reported by the next read of the flag.
C9Claim ==
    /\ (rpc = "idle" /\ pendingQ) => queueChanged_
    /\ (rpc = "idle" /\ pendingS) => subQueueChanged_

\* C10 (as claimed): the handler of a QueueSize or SubQueueSize request
\* enqueues nothing when the size is the cached one, and otherwise pushes
\* exactly one GetQueue 0 25000, or GetSubQueue 0 5000, before it ends.
C10Claim ==
    [][ queuedFunc.f \in {"sendGetQueueSize", "sendGetSubQueueSize"} =>
          LET isQ == queuedFunc.f = "sendGetQueueSize"
              cached == IF isQ THEN queueSize_ ELSE subQueueSize_
              fetch == IF isQ THEN [op |-> "GetQueue", args |-> <<0, 25000>>]
                       ELSE [op |-> "GetSubQueue", args |-> <<0, 5000>>]
          IN  /\ (wpc = "handler" /\ wpc' # wpc /\ Stoi(wstr.text) = cached) =>
                    wpc' = "relock" /\ writeQueue' = writeQueue
              /\ (wpc = "handler" /\ wpc' # wpc /\ Stoi(wstr.text) # cached) =>
                    wpc' = "add" /\ wret' = "h_end"
              /\ (wpc # "h_end" /\ wpc' = "h_end") =>
                    /\ Len(writeQueue') = Len(writeQueue) + 1
                    /\ SubSeq(writeQueue', 1, Len(writeQueue)) = writeQueue
                    /\ writeQueue'[Len(writeQueue')].msg = fetch
      ]_vars

\* The ids of the commands in a queue.
QueuedIds(q) == {q[i].id : i \in DOMAIN q}

\* C11: a command leaves the queue either popped from the front after its
\* handler has run to its end, once, on the reply to its request, or in a
\* clear made in an error state without its handler ever having been invoked;
\* a handler is invoked only for the front command, which stays in the queue
\* while it runs, and never for a command that has been handled before.
C11Theorem ==
    /\ [](queuedFunc # NoFunc =>
            /\ writeQueue # <<>> /\ Head(writeQueue).id = queuedFunc.id
            /\ wstr.to = queuedFunc.id)
    /\ [][ /\ (wpc = "handler" /\ wpc' # "handler") =>
                /\ queuedFunc.id > lastHandled
                /\ lastHandled' = queuedFunc.id
           /\ lastHandled' # lastHandled => wpc = "handler"
           /\ \A id \in QueuedIds(writeQueue) \ QueuedIds(writeQueue') :
                \/ /\ wpc = "relock" /\ id = Head(writeQueue).id
                   /\ id = queuedFunc.id /\ id = lastHandled
                \/ /\ wpc \in {"loop", "read", "relock"} /\ error_' # "None"
                   /\ id > lastHandled /\ queuedFunc'.id # id
                   /\ writeQueue' = <<>>
         ]_vars

\* One command was popped after its handler ran and a later clear discarded
\* more than one command that were never handled.
C11Witness ==
    /\ lastHandled >= 1 /\ failedUpTo >= lastHandled + 2
    /\ writeQueue = <<>> /\ wpc = "loop"

\* C12: the error field goes from another value to None only in the step
\* that ends a reconnect() of the application thread, and the socket is
\* replaced only in the step that begins one; the worker takes no part in
\* either step.
C12Theorem ==
    [][ /\ (error_ # "None" /\ error_' = "None") =>
              /\ apc = "handshake" /\ apc' = "idle"
              /\ UNCHANGED workerVars
        /\ socket' # socket =>
              /\ apc = "idle" /\ nextSocket' = nextSocket + 1
              /\ UNCHANGED workerVars
      ]_vars

\* After a reconnect() cleared the error the worker is in an exchange on the
\* new session.
C12Witness == nextSocket = 2 /\ error_ = "None" /\ wpc = "read" /\ socket.id = 2

C14Claim == db = "readWrite" => ownRan

\* C15: after a construction whose handshake succeeded the queue holds
\* GetQueue(0, 25000) and then GetSubQueue(0, 5000) and nothing else; and the
\* step in which the handler of GetQueue stores its reply leaves in the
\* cached queue the integers of the segments of the reply between
\* delimiters, in order, and sets the change flag of the queue.
C15Claim ==
    /\ (error_ = "None" =>
            /\ Len(writeQueue) = 2
            /\ writeQueue[1].msg = [op |-> "GetQueue", args |-> <<0, 25000>>]
            /\ writeQueue[2].msg = [op |-> "GetSubQueue", args |-> <<0, 5000>>])
    /\ [][(wpc = "handler" /\ queuedFunc.f = "sendGetQueue" /\ wpc' = "relock") =>
            (queue_' = ParseQueue(wstr.text, <<>>) /\ queueChanged_')]_vars

\* C16: every queued command of sendSetVolume carries the SetVolume opcode
\* and the decimal string of the volume asked for; the step in which its
\* handler stores a reply that spells the volume r leaves r in the cached
\* volume, whatever volume was asked for; and the cached volume changes in
\* no step but the one in which a volume handler stores its reply.
C16Theorem ==
    [][/\ \A i \in DOMAIN writeQueue' :
            writeQueue'[i].f = "sendSetVolume" =>
                /\ writeQueue'[i].msg.op = "SetVolume"
                /\ \E v \in Volumes : writeQueue'[i].msg.args = <<to_string(v)>>
       /\ (wpc = "handler" /\ queuedFunc.f = "sendSetVolume" /\ wpc' = "relock") =>
            \A r \in Volumes : wstr.text = to_string(r) => volume_' = r
       /\ volume_' # volume_ =>
            (wpc = "handler" /\ queuedFunc.f \in {"sendGetVolume", "sendSetVolume"})]_vars

\* The handler of a sendSetVolume(0.5) has stored the reply 42.5 and its
\* command is still at the front of the queue.
C16Witness ==
    /\ wpc = "relock" /\ queuedFunc.f = "sendSetVolume"
    /\ Front(writeQueue).msg.args = <<to_string(5)>>
    /\ wstr.text = to_string(425)
    /\ volume_ = 425

\* C17: in no state is writeMutex held while the exchange of a queued
\* command with the service is in progress (its request written and its
\* reply awaited), so that no producer waits for the mutex during one.
C17Claim ==
    wpc = "read" => writeMutex = "free"

\* The worker is inside a handler: between the call of queuedFunc and its
\* return, addToWriteQueue calls of the handler included.
InHandler ==
    \/ wpc \in {"handler", "h_end"}
    \/ wpc \in {"add", "add_push"} /\ wret = "h_end"

\* The worker is at the store of a GetQueue handler, which takes queueMutex.
AtQueueStore ==
    /\ queuedFunc.f = "sendGetQueue"
    /\ wpc \in {"handler", "h_end"}

\* C18: the worker does not hold writeMutex while a handler runs; and no
\* thread of a living process is blocked: the thread that holds writeMutex
\* or queueMutex can take a step, and when nobody holds the mutex every
\* thread that waits for it can take it.
C18Theorem ==
    /\ InHandler => writeMutex # "worker"
    /\ Alive /\ writeMutex = "worker" => ENABLED Worker
    /\ Alive /\ writeMutex = "app" => ENABLED ReconnectEnd
    /\ Alive /\ writeMutex = "free" =>
            /\ \A p \in Producers : ppc[p] = "push" => ENABLED ProducerPush(p)
            /\ wpc \in {"lock", "add_push", "relock"} => ENABLED Worker
    /\ Alive /\ queueMutex = "reader" => ENABLED QueueUnlock
    /\ Alive /\ queueMutex = "free" /\ AtQueueStore => ENABLED Worker

\* The handler of SetShuffle is at its push of GetQueue while a producer
\* waits at its push too, a reader holds queueMutex, and nobody holds
\* writeMutex.
C18Witness ==
    /\ wpc = "add_push" /\ queuedFunc.f = "sendSetShuffle"
    /\ \E p \in Producers : ppc[p] = "push"
    /\ queueMutex = "reader"
    /\ writeMutex = "free"

\* C19: the worker is never between the write and the read of an exchange
\* while reconnect() is inside its handshake; the session of the exchange in
\* progress is the one the socket field holds; and the socket field is
\* replaced (the old session deleted) in no step in which an exchange of
\* the worker is in progress.
C19Theorem ==
    /\ [](~(wpc = "read" /\ apc = "handshake"))
    /\ [](wpc = "read" => (wsession = socket.id /\ socket.id # 0))
    /\ [][socket' # socket => (wpc # "read" /\ writeMutex = "free")]_vars

\* After a handler ran, reconnect() has replaced the session and the worker
\* is in an exchange on the new one.
C19Witness ==
    /\ wpc = "read" /\ wsession = 2 /\ socket.id = 2
    /\ lastHandled >= 1

\* C20: at most one request is in flight; a request is in flight only while
\* the worker waits for its reply, and never while reconnect() is in its
\* version exchange; the reply a handler gets is the reply to the request
\* sent last, which is the request of that handler's command; and a request
\* is sent only in a step that starts with no request in flight.
C20Theorem ==
    /\ [](Len(wire) <= 1)
    /\ [](wire # <<>> => (wpc = "read" /\ apc # "handshake"))
    /\ [](wpc = "handler" => (wstr.to = lastSent /\ queuedFunc.id = lastSent))
    /\ [][lastSent' # lastSent => (wire = <<>> /\ apc # "handshake")]_vars

\* The handler of the second command has the reply to the second request
\* while more commands wait in the queue.
C20Witness ==
    /\ wpc = "handler" /\ wstr.to = 2 /\ lastSent = 2
    /\ Len(writeQueue) >= 2

\* The value fields of the cached state that the model holds.
CachedValues ==
    <<queueSize_, subQueueSize_, songIdx_, queue_, subQueue_, volume_, position_>>

\* C21: a value field of the cached state changes in no step but one in
\* which a handler, run by the worker, stores its reply.
C21Claim ==
    [][CachedValues' # CachedValues => wpc \in {"handler", "h_end"}]_vars

\* The handlers of a sequence of commands or requests.
Handlers(q) == [i \in DOMAIN q |-> q[i].f]

\* The ten state requests, by handler, in the order of lines 165-174.
StateRequests ==
    << "sendGetPlayingFrom", "sendGetPosition", "sendGetQueueSize", "sendGetRepeat",
       "sendGetShuffle", "sendGetSong", "sendGetSongIdx", "sendGetSubQueueSize",
       "sendGetStatus", "sendGetVolume" >>

\* The place of a handler among the ten state requests, 0 for another.
PlaceOf(f) ==
    IF \E i \in DOMAIN StateRequests : StateRequests[i] = f
    THEN CHOOSE i \in DOMAIN StateRequests : StateRequests[i] = f
    ELSE 0

IsStateRequest(c) == PlaceOf(c.f) # 0

\* The step that ends a poll: the last of its ten calls returns.
PollEnd ==
    /\ wret = "top" /\ wpc \in {"add", "add_push"}
    /\ wpc' = "top"

IsFetch(c) == c.f \in {"sendGetQueue", "sendGetSubQueue"}

IsStateRequestOrFetch(c) == IsStateRequest(c) \/ IsFetch(c)

\* The state requests still queued are in the fixed order, and no fetch of
\* the queue or sub-queue is queued before one of them: among the state
\* requests and fetches queued, a state request is followed by a later
\* state request or a fetch, a fetch by a fetch.
PollOrder ==
    LET s == SelectSeq(writeQueue, IsStateRequestOrFetch)
    IN  \A i \in 1..(Len(s) - 1) :
            IF IsStateRequest(s[i + 1])
            THEN IsStateRequest(s[i]) /\ PlaceOf(s[i].f) < PlaceOf(s[i + 1].f)
            ELSE TRUE

C23Claim ==
    wpc # "thrown"

\* A fetch of the queue is queued, or the worker is about to enqueue one or
\* is in the handler of one.
FetchAhead ==
    \/ \E i \in DOMAIN writeQueue : writeQueue[i].f = "sendGetQueue"
    \/ \E i \in DOMAIN wtodo : wtodo[i].f = "sendGetQueue"
    \/ queuedFunc.f = "sendGetQueue"

\* The cached size and song index are those of the service, so that no
\* handler of a later poll fetches the queue; no fetch is ahead; and the
\* cached queue has not as many entries as the cached size says.
QueueStale ==
    /\ queueSize_ = 2 /\ songIdx_ = 2
    /\ ~FetchAhead
    /\ Len(queue_) # queueSize_

\* C24: with a service whose queues no longer change, the engine is never
\* connected, with its worker running, in a state from which no poll
\* fetches the queue again while the cached queue has not as many entries
\* as the cached queue size says.
C24Claim ==
    ~(error_ = "None" /\ wpc = "top" /\ QueueStale)

\* The command of a blocking call is still in the write queue, or the
\* worker has taken it from the queue and not yet popped it.
CommandLeft(call) ==
    \/ \E i \in DOMAIN writeQueue : writeQueue[i].call = call
    \/ queuedFunc.call = call

\* C25: the handler registered by a blocking call is never invoked after
\* that call has returned: no handler has stored through a reference to a
\* done that is gone, and once the call has returned its failure value its
\* command is neither in the queue nor being processed by the worker.
C25Claim ==
    /\ ~dangling
    /\ (wtpc = "returned" /\ ~wtret.ok) => ~CommandLeft(wcall)

====
